---- MODULE Spec2Model ----
(***************************************************************************)
(* Model of the tonic-sdk-rs central limit order book: the VecL2 side      *)
(* container (crates/dex-orderbook/src/l2/vec.rs) and the matching engine  *)
(* Orderbook::place_order / match_order / remove_order / cancel_orders     *)
(* (crates/dex-orderbook/src/orderbook.rs).                                *)
(*                                                                         *)
(* A side of the book is the vector VecL2.orders: a sequence of pairs      *)
(*   [price, order]                                                        *)
(* where order is an OpenLimitOrder                                        *)
(*   [sequence_number, owner_id, open_qty_lots, client_id,                 *)
(*    limit_price_lots, side, price_rank]                                  *)
(* whose last three fields are Options initialized at read time.           *)
(* Option<T> is modelled by None / Some(v).                                *)
(***************************************************************************)
EXTENDS Integers, Sequences, FiniteSets, TLC

(***************************************************************************)
(* Bounds of the model.                                                    *)
(***************************************************************************)
MaxSeq == 3        \* place_order calls per behaviour (sequence numbers 1..MaxSeq)
MaxPrice == 2      \* limit prices are drawn from 1..MaxPrice
MaxQty == 2        \* max_qty_lots is drawn from 1..MaxQty
MaxQuote == 2      \* available_quote_lots is drawn from 0..MaxQuote

Users == {"a.near", "b.near"}
Sides == {"Buy", "Sell"}
OrderTypes == {"Limit", "ImmediateOrCancel", "PostOnly", "FillOrKill", "Market"}

\* (base_lot_size, quote_lot_size, base_denomination); each satisfies
\* base_lot_size * quote_lot_size >= base_denomination
LotParams == {<<1, 1, 1>>, <<1, 3, 3>>, <<1, 3, 2>>}

None == [some |-> FALSE]
Some(v) == [some |-> TRUE, v |-> v]
UnwrapOrDefault(o) == IF o.some THEN o.v ELSE 0

\* a minimum that takes the larger argument
Min_takes_larger(a, b) == IF a <= b THEN b ELSE a

Min(a, b) == IF a <= b THEN a ELSE b

(***************************************************************************)
(* Order identity (crates/dex-types/src/order_id.rs).  An OrderId is one   *)
(* unsigned word  [ Side | Sequence number | Price in lots ]  of           *)
(* 1 | 63 | 64 bits.  The model keeps the layout and scales the widths:    *)
(* a LotBalance (u64) has LotBalanceBits bits, the price field has as many *)
(* and the sequence field one bit less.  Shifts are multiplications and    *)
(* divisions by powers of two, masks are remainders.                       *)
(***************************************************************************)
LotBalanceBits == 4    \* scaled width of u64

RECURSIVE Pow2(_)
Pow2(n) == IF n = 0 THEN 1 ELSE 2 * Pow2(n - 1)

\* the values of a u64
LotBalance == 0..(Pow2(LotBalanceBits) - 1)

\* position of the side bit: 127 in the source
SideShift == 2 * LotBalanceBits - 1

\* !(1 << 127): every bit below the side bit
SEQUENCE_MASK == Pow2(SideShift) - 1

\* x & SEQUENCE_MASK for an x of at most SideShift + 1 bits
MaskSequence(x) == x % (SEQUENCE_MASK + 1)

\* the three parts occupy disjoint bits, so their bitwise or is their sum
new_order_id(side, price, sequence_number) ==
    LET side_part == IF side = "Buy" THEN Pow2(SideShift) ELSE 0
        sequence_part == MaskSequence(sequence_number * Pow2(LotBalanceBits))
        price_part == price
    IN  side_part + sequence_part + price_part

\* a decoding that shifts the word without clearing the side bit
get_order_id_parts_unmasked(oid) ==
    LET side_part == oid \div Pow2(SideShift)
        price_part == oid % Pow2(LotBalanceBits)
        sequence_part == oid \div Pow2(LotBalanceBits)
    IN  [side |-> IF side_part = 1 THEN "Buy" ELSE "Sell",
         price |-> price_part,
         seq |-> sequence_part]

get_order_id_parts(oid) ==
    LET side_part == oid \div Pow2(SideShift)
        price_part == oid % Pow2(LotBalanceBits)
        sequence_part == MaskSequence(oid) \div Pow2(LotBalanceBits)
    IN  [side |-> IF side_part = 1 THEN "Buy" ELSE "Sell",
         price |-> price_part,
         seq |-> sequence_part]

(***************************************************************************)
(* Lot math (orderbook_math/calculator.rs, orderbook_math/bn.rs).          *)
(* The math is done in U256 and narrowed at the end; a narrowing that does  *)
(* not fit panics.  A Balance (u128) has twice the bits of a LotBalance.    *)
(***************************************************************************)
U64_OVERFLOW == "Integer overflow when casting to u64"
U128_OVERFLOW == "Integer overflow when casting to u128"

\* U256::as_u64: None stands for the panic
as_u64(x) == IF x < Pow2(LotBalanceBits) THEN Some(x) ELSE None

\* U256::as_u128: None stands for the panic
as_u128(x) == IF x < Pow2(2 * LotBalanceBits) THEN Some(x) ELSE None

get_bid_quote_value(quantity, price, base_lot_size, quote_lot_size, base_denomination) ==
    (quantity * base_lot_size * price * quote_lot_size) \div base_denomination

\* a conversion that divides by the quote lot size before it multiplies
get_base_purchasable_divides_first(quote_amount, price, quote_lot_size, base_lot_size, base_denomination) ==
    as_u64((((quote_amount \div quote_lot_size) * base_denomination)
                \div price) \div base_lot_size)

\* base lots that quote_amount of native quote buys at price; None stands
\* for the panic of the narrowing
get_base_purchasable(quote_amount, price, quote_lot_size, base_lot_size, base_denomination) ==
    as_u64((((quote_amount * base_denomination) \div quote_lot_size)
                \div price) \div base_lot_size)

(***************************************************************************)
(* VecL2 (l2/vec.rs).  reverse_prices is TRUE for the bid side.            *)
(***************************************************************************)
L2Side(reverse_prices) == IF reverse_prices THEN "Buy" ELSE "Sell"

\* a key that ignores reverse_prices
EffectivePrice_never_reversed(reverse_prices, price) == price

\* !price on an unsigned word orders exactly as -price - 1
EffectivePrice(reverse_prices, price) ==
    IF reverse_prices THEN 0 - price - 1 ELSE price

\* a key order that looks at the price alone
KeyLess_price_only(reverse_prices, p1, s1, p2, s2) ==
    EffectivePrice(reverse_prices, p1) < EffectivePrice(reverse_prices, p2)

KeyLess(reverse_prices, p1, s1, p2, s2) ==
    \/ EffectivePrice(reverse_prices, p1) < EffectivePrice(reverse_prices, p2)
    \/ /\ EffectivePrice(reverse_prices, p1) = EffectivePrice(reverse_prices, p2)
       /\ s1 < s2

\* binary_search_by_key over the sorted vector: Ok(loc) when the key is
\* present, Err(loc) with the insertion point otherwise
find_order_loc(orders, reverse_prices, price_lots, seq) ==
    LET hits == {i \in 1..Len(orders) :
                    orders[i].price = price_lots
                    /\ orders[i].order.sequence_number = seq}
        below == {i \in 1..Len(orders) :
                    KeyLess(reverse_prices, orders[i].price,
                            orders[i].order.sequence_number, price_lots, seq)}
    IN  IF hits # {}
        THEN [ok |-> TRUE, loc |-> CHOOSE i \in hits : TRUE]
        ELSE [ok |-> FALSE, loc |-> Cardinality(below) + 1]

\* dedup that keeps every element
Dedup_keeps_all(levels) == levels

RECURSIVE Dedup(_)
Dedup(levels) ==
    IF Len(levels) <= 1 THEN levels
    ELSE LET rest == Dedup(Tail(levels))
         IN  IF Head(levels) = Head(rest) THEN rest ELSE <<Head(levels)>> \o rest

\* a rank search that ignores reverse_prices when the level is absent
get_price_rank_result_never_reversed(orders, reverse_prices, price_lots) ==
    LET price_levels == Dedup([i \in 1..Len(orders) |-> orders[i].price])
        hits == {i \in 1..Len(price_levels) : price_levels[i] = price_lots}
        below == {i \in 1..Len(price_levels) : price_levels[i] < price_lots}
    IN  IF hits # {}
        THEN [ok |-> TRUE, rank |-> (CHOOSE i \in hits : TRUE) - 1]
        ELSE [ok |-> FALSE, rank |-> Cardinality(below)]

\* Ok(rank) and Err(rank) are both mapped to rank by get_price_rank
get_price_rank_result(orders, reverse_prices, price_lots) ==
    LET price_levels == Dedup([i \in 1..Len(orders) |-> orders[i].price])
        hits == {i \in 1..Len(price_levels) : price_levels[i] = price_lots}
        below == {i \in 1..Len(price_levels) :
                    EffectivePrice(reverse_prices, price_levels[i])
                        < EffectivePrice(reverse_prices, price_lots)}
    IN  IF hits # {}
        THEN [ok |-> TRUE, rank |-> (CHOOSE i \in hits : TRUE) - 1]
        ELSE [ok |-> FALSE, rank |-> Cardinality(below)]

get_price_rank(orders, reverse_prices, price_lots) ==
    get_price_rank_result(orders, reverse_prices, price_lots).rank

\* an accessor that fills a derived field only when nothing is stored in it
Initialized_keeps_stored(orders, reverse_prices, e) ==
    [e.order EXCEPT !.limit_price_lots =
                        IF e.order.limit_price_lots.some THEN @ ELSE Some(e.price),
                    !.side = IF e.order.side.some THEN @ ELSE Some(L2Side(reverse_prices)),
                    !.price_rank =
                        IF e.order.price_rank.some THEN @
                        ELSE Some(get_price_rank(orders, reverse_prices, e.price))]

\* the OpenLimitOrder handed out by the container: a clone of the stored
\* order with price, side and price rank initialized at read time
Initialized(orders, reverse_prices, e) ==
    [e.order EXCEPT !.limit_price_lots = Some(e.price),
                    !.side = Some(L2Side(reverse_prices)),
                    !.price_rank = Some(get_price_rank(orders, reverse_prices, e.price))]

\* OrderIter::iter / initializing_iter
l2_iter(orders, reverse_prices) ==
    [i \in 1..Len(orders) |-> Initialized(orders, reverse_prices, orders[i])]

InsertAt(orders, loc, e) ==
    SubSeq(orders, 1, loc - 1) \o <<e>> \o SubSeq(orders, loc, Len(orders))

RemoveAt(orders, loc) ==
    SubSeq(orders, 1, loc - 1) \o SubSeq(orders, loc + 1, Len(orders))

\* save_order that drops the write when the key is already present
save_order_lost_update(orders, reverse_prices, order) ==
    LET price == order.limit_price_lots.v
        r == find_order_loc(orders, reverse_prices, price, order.sequence_number)
        e == [price |-> price, order |-> order]
    IN  IF r.ok THEN orders
        ELSE InsertAt(orders, r.loc, e)

save_order(orders, reverse_prices, order) ==
    LET price == order.limit_price_lots.v
        r == find_order_loc(orders, reverse_prices, price, order.sequence_number)
        e == [price |-> price, order |-> order]
    IN  IF r.ok THEN [orders EXCEPT ![r.loc] = e]
        ELSE InsertAt(orders, r.loc, e)

l2_get_order(orders, reverse_prices, price_lots, seq) ==
    LET hits == {i \in 1..Len(orders) :
                    orders[i].price = price_lots
                    /\ orders[i].order.sequence_number = seq}
    IN  IF hits = {} THEN None
        ELSE LET i == CHOOSE j \in hits : \A k \in hits : j <= k
             IN  Some(Initialized(orders, reverse_prices, orders[i]))

\* delete_order that hands the order out and leaves it in the vector
delete_order_keeps_entry(orders, reverse_prices, price_lots, seq) ==
    LET r == find_order_loc(orders, reverse_prices, price_lots, seq)
    IN  IF r.ok
        THEN [orders |-> orders,
              ret |-> Some(Initialized(orders, reverse_prices, orders[r.loc]))]
        ELSE [orders |-> orders, ret |-> None]

\* [orders |-> the vector afterwards, ret |-> Option<OpenLimitOrder>]
delete_order(orders, reverse_prices, price_lots, seq) ==
    LET r == find_order_loc(orders, reverse_prices, price_lots, seq)
    IN  IF r.ok
        THEN [orders |-> RemoveAt(orders, r.loc),
              ret |-> Some(Initialized(orders, reverse_prices, orders[r.loc]))]
        ELSE [orders |-> orders, ret |-> None]

\* max_order that hands out the front of the vector
max_order_front(orders, reverse_prices) ==
    IF Len(orders) = 0 THEN None
    ELSE Some(Initialized(orders, reverse_prices, orders[1]))

\* max_by_key / min_by_key on (price, sequence_number) in the natural order
max_order(orders, reverse_prices) ==
    IF Len(orders) = 0 THEN None
    ELSE LET i == CHOOSE j \in 1..Len(orders) : \A k \in 1..Len(orders) :
                    k = j \/ KeyLess(FALSE, orders[k].price, orders[k].order.sequence_number,
                                     orders[j].price, orders[j].order.sequence_number)
         IN  Some(Initialized(orders, reverse_prices, orders[i]))

\* a min_order that takes the back of the vector
min_order_back(orders, reverse_prices) ==
    IF Len(orders) = 0 THEN None
    ELSE Some(Initialized(orders, reverse_prices, orders[Len(orders)]))

min_order(orders, reverse_prices) ==
    IF Len(orders) = 0 THEN None
    ELSE LET i == CHOOSE j \in 1..Len(orders) : \A k \in 1..Len(orders) :
                    k = j \/ KeyLess(FALSE, orders[j].price, orders[j].order.sequence_number,
                                     orders[k].price, orders[k].order.sequence_number)
         IN  Some(Initialized(orders, reverse_prices, orders[i]))

(***************************************************************************)
(* Orderbook (orderbook.rs).  A book is [bids, asks]; bids is the VecL2    *)
(* with reverse_prices = TRUE.                                             *)
(***************************************************************************)
SELF_TRADE == "errors::SELF_TRADE"
MISSING_LIMIT_PRICE == "E21: missing limit price"

find_bbo(book, side) ==
    IF side = "Buy" THEN max_order(book.bids, TRUE) ELSE min_order(book.asks, FALSE)

\* insert_order that drops the order
insert_order_dropped(book, order) == book

insert_order(book, order) ==
    IF order.side.v = "Buy"
    THEN [book EXCEPT !.bids = save_order(book.bids, TRUE, order)]
    ELSE [book EXCEPT !.asks = save_order(book.asks, FALSE, order)]

ob_get_order(book, order_id) ==
    LET parts == get_order_id_parts(order_id)
        order == IF parts.side = "Buy"
                 THEN l2_get_order(book.bids, TRUE, parts.price, parts.seq)
                 ELSE l2_get_order(book.asks, FALSE, parts.price, parts.seq)
    IN  IF order.some THEN Some([order.v EXCEPT !.side = Some(parts.side)]) ELSE None

\* [book |-> the book afterwards, ret |-> Option<OpenLimitOrder>]
remove_order(book, order_id) ==
    LET parts == get_order_id_parts(order_id)
        d == IF parts.side = "Buy"
             THEN delete_order(book.bids, TRUE, parts.price, parts.seq)
             ELSE delete_order(book.asks, FALSE, parts.price, parts.seq)
        after == IF parts.side = "Buy" THEN [book EXCEPT !.bids = d.orders]
                 ELSE [book EXCEPT !.asks = d.orders]
    IN  [book |-> after,
         ret |-> IF d.ret.some THEN Some([d.ret.v EXCEPT !.side = Some(parts.side)])
                 ELSE None]

cancel_order(book, order_id) == remove_order(book, order_id)

\* a batch that stops at the first id that is not resting
RECURSIVE cancel_orders_stops_at_miss(_, _)
cancel_orders_stops_at_miss(book, order_ids) ==
    IF Len(order_ids) = 0 THEN [book |-> book, deleted |-> <<>>]
    ELSE LET r == remove_order(book, Head(order_ids))
             rest == cancel_orders_stops_at_miss(r.book, Tail(order_ids))
         IN  IF r.ret.some
             THEN [book |-> rest.book, deleted |-> <<r.ret.v>> \o rest.deleted]
             ELSE [book |-> book, deleted |-> <<>>]

\* [book, deleted]: ids that are not resting are skipped
RECURSIVE cancel_orders(_, _)
cancel_orders(book, order_ids) ==
    IF Len(order_ids) = 0 THEN [book |-> book, deleted |-> <<>>]
    ELSE LET r == remove_order(book, Head(order_ids))
             rest == cancel_orders(r.book, Tail(order_ids))
         IN  [book |-> rest.book,
              deleted |-> IF r.ret.some THEN <<r.ret.v>> \o rest.deleted
                          ELSE rest.deleted]

\* OpenLimitOrder::id
order_id_of(o) == new_order_id(o.side.v, o.limit_price_lots.v, o.sequence_number)

(***************************************************************************)
(* Matching engine.  A NewOrder is                                         *)
(*   [sequence_number, limit_price_lots, available_quote_lots,             *)
(*    max_qty_lots, side, order_type, base_denomination, quote_lot_size,   *)
(*    base_lot_size, client_id]                                            *)
(* The U256 -> u64 / u128 narrowings of match_order panic when the value   *)
(* does not fit the scaled width; with LotParams every product fits, with  *)
(* WideLotParams the buy clamp does not.                                   *)
(***************************************************************************)
\* a cross test with the two sides exchanged
check_if_crossed_exchanged(side, p1, p2) == IF side = "Buy" THEN p1 >= p2 ELSE p1 <= p2

check_if_crossed(side, p1, p2) == IF side = "Buy" THEN p1 <= p2 ELSE p1 >= p2

\* a clamp that rounds up to the next base lot
max_based_on_remaining_quote_rounds_up(remaining_quote_lots, trade_price_lots, order) ==
    (remaining_quote_lots * order.base_denomination
        + trade_price_lots * order.base_lot_size - 1)
            \div (trade_price_lots * order.base_lot_size)

\* the quantity clamp of a taker that carries a quote budget, before it is
\* narrowed to a u64
max_based_on_remaining_quote(remaining_quote_lots, trade_price_lots, order) ==
    ((remaining_quote_lots * order.base_denomination) \div trade_price_lots)
        \div order.base_lot_size

\* a price of a match that floors before the quote lot size is applied
native_quote_paid_floors_early(trade_price_lots, trade_qty_lots, order) ==
    ((trade_price_lots * trade_qty_lots * order.base_lot_size)
        \div order.base_denomination) * order.quote_lot_size

\* native quote owed for one match: one floor division at the end; the
\* value before it is narrowed to a u128
native_quote_paid(trade_price_lots, trade_qty_lots, order) ==
    (trade_price_lots * order.quote_lot_size * trade_qty_lots * order.base_lot_size)
        \div order.base_denomination

\* quote lots deducted from the budget for one match; the cast to u64
\* keeps the low bits
quote_lots_paid(native_paid, order) ==
    (native_paid \div order.quote_lot_size) % Pow2(LotBalanceBits)

\* a walk that never recognises the placing user's own orders
is_self_trade_never(best_match, user_id) == FALSE

\* the self-trade test of the walk
is_self_trade(best_match, user_id) == best_match.owner_id = user_id

\* One pass of the loop of match_order over resting_orders[i..]; st is
\* [unfilled_qty_lots, unused_quote_lots, matches, error], error being the
\* message of the panic that ended the walk: a self trade, or a narrowing
\* of the U256 math that does not fit
RECURSIVE match_walk(_, _, _, _, _)
match_walk(resting_orders, i, user_id, order, st) ==
    IF i > Len(resting_orders) THEN st
    ELSE
    LET best_match == resting_orders[i]
        trade_price_lots == best_match.limit_price_lots.v
        crossed == \/ ~order.limit_price_lots.some
                   \/ check_if_crossed(order.side, trade_price_lots,
                                       order.limit_price_lots.v)
    IN  IF ~crossed THEN st
        ELSE IF st.unfilled_qty_lots = 0 THEN st
        ELSE IF is_self_trade(best_match, user_id)
        THEN [st EXCEPT !.error = Some(SELF_TRADE)]
        ELSE IF /\ st.unused_quote_lots.some
                /\ ~as_u64(max_based_on_remaining_quote(st.unused_quote_lots.v,
                                        trade_price_lots, order)).some
        THEN [st EXCEPT !.error = Some(U64_OVERFLOW)]
        ELSE
        LET trade_qty_lots ==
                IF st.unused_quote_lots.some
                THEN Min(Min(best_match.open_qty_lots, st.unfilled_qty_lots),
                         max_based_on_remaining_quote(st.unused_quote_lots.v,
                                                      trade_price_lots, order))
                ELSE Min(best_match.open_qty_lots, st.unfilled_qty_lots)
        IN  IF trade_qty_lots = 0 THEN st
            ELSE IF ~as_u128(native_quote_paid(trade_price_lots, trade_qty_lots,
                                               order)).some
            THEN [st EXCEPT !.error = Some(U128_OVERFLOW)]
            ELSE
            LET paid == native_quote_paid(trade_price_lots, trade_qty_lots, order)
                m == [maker_order_id |-> order_id_of(best_match),
                      maker_user_id |-> best_match.owner_id,
                      fill_qty_lots |-> trade_qty_lots,
                      fill_price_lots |-> trade_price_lots,
                      native_quote_paid |-> paid,
                      maker_order_removed |-> None]
            IN  match_walk(resting_orders, i + 1, user_id, order,
                    [unfilled_qty_lots |-> st.unfilled_qty_lots - trade_qty_lots,
                     unused_quote_lots |->
                        IF st.unused_quote_lots.some
                        THEN Some(st.unused_quote_lots.v
                                    - quote_lots_paid(paid, order))
                        ELSE st.unused_quote_lots,
                     matches |-> Append(st.matches, m),
                     error |-> None])

\* MatchOrderResult, with the panic (if any) in error
match_order(book, user_id, order) ==
    LET resting_orders == IF order.side = "Buy" THEN l2_iter(book.asks, FALSE)
                          ELSE l2_iter(book.bids, TRUE)
    IN  match_walk(resting_orders, 1, user_id, order,
            [unfilled_qty_lots |-> order.max_qty_lots,
             unused_quote_lots |-> order.available_quote_lots,
             matches |-> <<>>,
             error |-> None])

\* a rejection test that lets a PostOnly order take liquidity
is_rejected_post_only_takes(order, unfilled_qty_lots) ==
    CASE order.order_type = "FillOrKill" -> unfilled_qty_lots > 0
      [] OTHER -> FALSE

\* a rejection test that kills a FillOrKill order only when nothing filled
is_rejected_fill_or_kill_partial(order, unfilled_qty_lots) ==
    CASE order.order_type = "PostOnly" -> unfilled_qty_lots < order.max_qty_lots
      [] order.order_type = "FillOrKill" -> unfilled_qty_lots = order.max_qty_lots
      [] OTHER -> FALSE

is_rejected(order, unfilled_qty_lots) ==
    CASE order.order_type = "PostOnly" -> unfilled_qty_lots < order.max_qty_lots
      [] order.order_type = "FillOrKill" -> unfilled_qty_lots > 0
      [] OTHER -> FALSE

\* an update that removes the maker whatever quantity it has left
apply_fill_always_removes(book, fill) ==
    [book |-> remove_order(book, fill.maker_order_id).book,
     fill |-> [fill EXCEPT !.maker_order_removed = Some(TRUE)]]

\* an update that saves a partly filled maker back with its old quantity
update_maker_order_keeps_quantity(book, fill, maker_order) ==
    IF maker_order.open_qty_lots - fill.fill_qty_lots = 0
    THEN [book |-> remove_order(book, fill.maker_order_id).book,
          fill |-> [fill EXCEPT !.maker_order_removed = Some(TRUE)]]
    ELSE [book |-> IF maker_order.side.v = "Buy"
                   THEN [book EXCEPT !.bids = save_order(book.bids, TRUE, maker_order)]
                   ELSE [book EXCEPT !.asks = save_order(book.asks, FALSE, maker_order)],
          fill |-> [fill EXCEPT !.maker_order_removed = Some(FALSE)]]

\* an update that saves every maker back, emptied or not
update_maker_order_never_removes(book, fill, maker_order) ==
    [book |-> IF maker_order.side.v = "Buy"
              THEN [book EXCEPT !.bids = save_order(book.bids, TRUE,
                        [maker_order EXCEPT !.open_qty_lots = @ - fill.fill_qty_lots])]
              ELSE [book EXCEPT !.asks = save_order(book.asks, FALSE,
                        [maker_order EXCEPT !.open_qty_lots = @ - fill.fill_qty_lots])],
     fill |-> [fill EXCEPT !.maker_order_removed = Some(FALSE)]]

\* the body of the loop over matches, maker_order being the order read back
\* from the book
update_maker_order(book, fill, maker_order) ==
    LET open_qty_lots == maker_order.open_qty_lots - fill.fill_qty_lots
        updated == [maker_order EXCEPT !.open_qty_lots = open_qty_lots]
    IN  IF open_qty_lots = 0
        THEN [book |-> remove_order(book, fill.maker_order_id).book,
              fill |-> [fill EXCEPT !.maker_order_removed = Some(TRUE)]]
        ELSE [book |-> IF updated.side.v = "Buy"
                       THEN [book EXCEPT !.bids = save_order(book.bids, TRUE, updated)]
                       ELSE [book EXCEPT !.asks = save_order(book.asks, FALSE, updated)],
              fill |-> [fill EXCEPT !.maker_order_removed = Some(FALSE)]]

\* "Update resting orders": one iteration of the loop over matches
apply_fill(book, fill) ==
    update_maker_order(book, fill, ob_get_order(book, fill.maker_order_id).v)

\* a loop that reports the fill of the last match only
RECURSIVE apply_matches_last_fill(_, _)
apply_matches_last_fill(book, matches) ==
    IF Len(matches) = 0 THEN [book |-> book, matches |-> <<>>, fill_qty_lots |-> 0]
    ELSE LET one == apply_fill(book, Head(matches))
             rest == apply_matches_last_fill(one.book, Tail(matches))
         IN  [book |-> rest.book,
              matches |-> <<one.fill>> \o rest.matches,
              fill_qty_lots |-> IF Len(matches) = 1 THEN Head(matches).fill_qty_lots
                                ELSE rest.fill_qty_lots]

\* the whole loop: [book, matches, fill_qty_lots]
RECURSIVE apply_matches(_, _)
apply_matches(book, matches) ==
    IF Len(matches) = 0 THEN [book |-> book, matches |-> <<>>, fill_qty_lots |-> 0]
    ELSE LET one == apply_fill(book, Head(matches))
             rest == apply_matches(one.book, Tail(matches))
         IN  [book |-> rest.book,
              matches |-> <<one.fill>> \o rest.matches,
              fill_qty_lots |-> Head(matches).fill_qty_lots + rest.fill_qty_lots]

\* can_post with the negation lost
can_post_inverted(order) ==
    order.order_type \in {"FillOrKill", "ImmediateOrCancel", "Market"}

\* can_post that lets the remainder of an ImmediateOrCancel order rest
can_post_ioc_rests(order) ==
    order.order_type \notin {"FillOrKill", "Market"}

can_post(order) ==
    order.order_type \notin {"FillOrKill", "ImmediateOrCancel", "Market"}

\* an outcome table that labels a partly filled order Rejected
order_outcome_rejects_partial(order, unfilled_qty_lots) ==
    IF unfilled_qty_lots = 0 THEN "Filled"
    ELSE IF order.order_type = "Market" THEN "Filled"
    ELSE IF unfilled_qty_lots = order.max_qty_lots
            /\ order.order_type \notin {"FillOrKill", "ImmediateOrCancel", "Market"}
    THEN "Posted"
    ELSE "Rejected"

\* an outcome table that surfaces the leftover of a Market order
order_outcome_market_leftover(order, unfilled_qty_lots) ==
    IF unfilled_qty_lots = 0 THEN "Filled"
    ELSE IF unfilled_qty_lots = order.max_qty_lots /\ can_post(order) THEN "Posted"
    ELSE "PartialFill"

\* an outcome table that calls every posted remainder Posted
order_outcome_posted_after_fill(order, unfilled_qty_lots) ==
    IF unfilled_qty_lots = 0 THEN "Filled"
    ELSE IF order.order_type = "Market" THEN "Filled"
    ELSE IF can_post(order) THEN "Posted"
    ELSE "PartialFill"

order_outcome(order, unfilled_qty_lots) ==
    IF unfilled_qty_lots = 0 THEN "Filled"
    ELSE IF order.order_type = "Market" THEN "Filled"
    ELSE IF unfilled_qty_lots = order.max_qty_lots /\ can_post(order) THEN "Posted"
    ELSE "PartialFill"

rejected_result(order_id) ==
    [id |-> order_id, fill_qty_lots |-> 0, open_qty_lots |-> 0,
     quote_amount_lots |-> 0, outcome |-> "Rejected", matches |-> <<>>]

\* a report that charges the whole budget
quote_amount_lots_whole_budget(order, unused_quote_lots) ==
    UnwrapOrDefault(order.available_quote_lots)

\* checked_sub(...).unwrap_or_default()
quote_amount_lots(order, unused_quote_lots) ==
    LET a == UnwrapOrDefault(order.available_quote_lots)
        u == UnwrapOrDefault(unused_quote_lots)
    IN  IF a >= u THEN a - u ELSE 0

\* place_order from "Update resting orders" on: applied is the outcome of
\* the loop over walk.matches
place_order_post(user_id, order, order_id, walk, applied) ==
    LET unfilled_qty_lots == walk.unfilled_qty_lots
        posts == unfilled_qty_lots > 0 /\ can_post(order)
    IN  IF posts /\ ~order.limit_price_lots.some
        THEN [book |-> applied.book, ret |-> None,
              error |-> Some(MISSING_LIMIT_PRICE), walk |-> walk]
        ELSE [book |-> IF posts
                       THEN insert_order(applied.book,
                               [sequence_number |-> order.sequence_number,
                                owner_id |-> user_id,
                                limit_price_lots |-> Some(order.limit_price_lots.v),
                                open_qty_lots |-> unfilled_qty_lots,
                                client_id |-> order.client_id,
                                side |-> Some(order.side),
                                price_rank |-> None])
                       ELSE applied.book,
              ret |-> Some(
                 [id |-> order_id,
                  fill_qty_lots |-> applied.fill_qty_lots,
                  open_qty_lots |-> IF can_post(order) THEN unfilled_qty_lots ELSE 0,
                  quote_amount_lots |-> quote_amount_lots(order, walk.unused_quote_lots),
                  outcome |-> order_outcome(order, unfilled_qty_lots),
                  matches |-> applied.matches]),
              error |-> None, walk |-> walk]

\* place_order once match_order has produced walk
place_order_matched(book, user_id, order, order_id, walk) ==
    IF walk.error.some
    THEN [book |-> book, ret |-> None, error |-> walk.error, walk |-> walk]
    ELSE IF is_rejected(order, walk.unfilled_qty_lots)
    THEN [book |-> book, ret |-> Some(rejected_result(order_id)),
          error |-> None, walk |-> walk]
    ELSE place_order_post(user_id, order, order_id, walk,
                          apply_matches(book, walk.matches))

\* Orderbook::place_order.  [book |-> the book when the call ends,
\* ret |-> Some(PlaceOrderResult) or None when the call panicked,
\* error |-> the panic message, walk |-> the MatchOrderResult]
place_order(book, user_id, order) ==
    place_order_matched(book, user_id, order,
        new_order_id(order.side, UnwrapOrDefault(order.limit_price_lots),
                     order.sequence_number),
        match_order(book, user_id, order))

(***************************************************************************)
(* The state machine: one book, driven by a caller that numbers its orders *)
(* with a counter (test_utils.rs Counter) and fixes the lot parameters of   *)
(* the market once.  call, before, ret, error and walk record the last     *)
(* call, the book it started from and what it produced, until the caller   *)
(* has taken the report (Settle); calls are sequential, so the next call   *)
(* starts only then.  A panic aborts the caller: no call follows it.       *)
(***************************************************************************)
VARIABLES bids, asks, prev, lot_params, call, before, ret, error, walk

vars == <<bids, asks, prev, lot_params, call, before, ret, error, walk>>

book_now == [bids |-> bids, asks |-> asks]

EmptyBook == [bids |-> <<>>, asks |-> <<>>]

NoWalk == [unfilled_qty_lots |-> 0, unused_quote_lots |-> None,
           matches |-> <<>>, error |-> None]

Init ==
    /\ bids = <<>>
    /\ asks = <<>>
    /\ prev = 0
    /\ lot_params \in LotParams
    /\ call = [op |-> "new"]
    /\ before = EmptyBook
    /\ ret = None
    /\ error = None
    /\ walk = NoWalk

Prices == 1..MaxPrice

LimitPrices == {None} \cup {Some(p) : p \in Prices}

\* a Sell never carries a quote budget
QuoteBudgets(side) ==
    IF side = "Buy" THEN {None} \cup {Some(q) : q \in 0..MaxQuote} ELSE {None}

\* one caller tags its orders with a client id, the other does not
ClientIdOf(user_id) == IF user_id = "a.near" THEN Some(7) ELSE None

NewOrder(side, order_type, max_qty_lots, limit_price_lots, available_quote_lots, client_id) ==
    [sequence_number |-> prev + 1,
     limit_price_lots |-> limit_price_lots,
     available_quote_lots |-> available_quote_lots,
     max_qty_lots |-> max_qty_lots,
     side |-> side,
     order_type |-> order_type,
     base_lot_size |-> lot_params[1],
     quote_lot_size |-> lot_params[2],
     base_denomination |-> lot_params[3],
     client_id |-> client_id]

Idle == call.op = "new"

PlaceOrder ==
    /\ Idle
    /\ prev < MaxSeq
    /\ \E user_id \in Users, side \in Sides, order_type \in OrderTypes,
          max_qty_lots \in 1..MaxQty, limit_price_lots \in LimitPrices :
        \E available_quote_lots \in QuoteBudgets(side) :
          \E order \in {NewOrder(side, order_type, max_qty_lots, limit_price_lots,
                                  available_quote_lots, ClientIdOf(user_id))} :
            \E r \in {place_order(book_now, user_id, order)} :
                /\ bids' = r.book.bids
                /\ asks' = r.book.asks
                /\ prev' = prev + 1
                /\ call' = [op |-> "place_order", user_id |-> user_id, order |-> order]
                /\ before' = book_now
                /\ ret' = r.ret
                /\ error' = r.error
                /\ walk' = r.walk
                /\ UNCHANGED lot_params

\* ids a caller can hold: those of the resting orders, and for every sequence
\* number issued so far an id that is no longer (or never was) on the book
RestingIds ==
    {order_id_of(l2_iter(bids, TRUE)[i]) : i \in 1..Len(bids)}
        \cup {order_id_of(l2_iter(asks, FALSE)[i]) : i \in 1..Len(asks)}

KnownIds ==
    RestingIds \cup {new_order_id("Sell", MaxPrice, seq) : seq \in 1..prev}

CancelOrder ==
    /\ Idle
    /\ \E order_id \in KnownIds :
            \E r \in {cancel_order(book_now, order_id)} :
                /\ bids' = r.book.bids
                /\ asks' = r.book.asks
                /\ call' = [op |-> "cancel_order", order_id |-> order_id]
                /\ before' = book_now
                /\ ret' = r.ret
                /\ error' = None
                /\ walk' = NoWalk
                /\ UNCHANGED <<prev, lot_params>>

CancelOrders ==
    /\ Idle
    /\ \E id1 \in KnownIds, id2 \in KnownIds :
        \E order_ids \in {<<>>, <<id1>>, <<id1, id2>>} :
            \E r \in {cancel_orders(book_now, order_ids)} :
                /\ bids' = r.book.bids
                /\ asks' = r.book.asks
                /\ call' = [op |-> "cancel_orders", order_ids |-> order_ids]
                /\ before' = book_now
                /\ ret' = Some(r.deleted)
                /\ error' = None
                /\ walk' = NoWalk
                /\ UNCHANGED <<prev, lot_params>>

\* the caller takes the report of a call that returned
Settle ==
    /\ ~Idle
    /\ ~error.some
    /\ call' = [op |-> "new"]
    /\ before' = EmptyBook
    /\ ret' = None
    /\ walk' = NoWalk
    /\ UNCHANGED <<bids, asks, prev, lot_params, error>>

Next == PlaceOrder \/ CancelOrder \/ CancelOrders \/ Settle

Spec == Init /\ [][Next]_vars

TypeOK ==
    /\ prev \in 0..MaxSeq
    /\ lot_params \in LotParams
    /\ call.op \in {"new", "place_order", "cancel_order", "cancel_orders"}
    /\ \A i \in 1..Len(bids) : bids[i].order.open_qty_lots \in 0..MaxQty
    /\ \A i \in 1..Len(asks) : asks[i].order.open_qty_lots \in 0..MaxQty

(***************************************************************************)
(* Vocabulary of the properties.                                           *)
(***************************************************************************)
Placed == call.op = "place_order"

\* the last call was a place_order that returned a PlaceOrderResult
Returned == Placed /\ ret.some

\* NewOrder validity: a limit price > 0 unless Market, a quote budget exactly
\* for a Buy, max_qty_lots > 0, lot sizes that cover the base denomination
ValidOrder(o) ==
    /\ o.max_qty_lots > 0
    /\ o.order_type # "Market" => (o.limit_price_lots.some /\ o.limit_price_lots.v > 0)
    /\ (o.side = "Buy") <=> o.available_quote_lots.some
    /\ o.base_lot_size * o.quote_lot_size >= o.base_denomination

\* the side the last place_order walked, before and after the call
OppositeBefore ==
    IF call.order.side = "Buy" THEN before.asks ELSE before.bids

OppositeNow == IF call.order.side = "Buy" THEN asks ELSE bids

OppositeIsBids == call.order.side = "Sell"

\* position in OppositeBefore of the maker a match names (0 if none)
MakerLoc(m) ==
    LET parts == get_order_id_parts(m.maker_order_id)
        r == find_order_loc(OppositeBefore, OppositeIsBids, parts.price, parts.seq)
    IN  IF r.ok THEN r.loc ELSE 0

StillResting(e) ==
    \E j \in 1..Len(OppositeNow) :
        /\ OppositeNow[j].price = e.price
        /\ OppositeNow[j].order.sequence_number = e.order.sequence_number

RECURSIVE SumPaid(_, _)
SumPaid(matches, n) ==
    IF n = 0 THEN 0 ELSE matches[n].native_quote_paid + SumPaid(matches, n - 1)

\* C1 (as claimed): a maker is filled only if every order ahead of it on its
\* side was filled completely by the same call, so no order ahead of a matched
\* maker is still resting afterwards -- for Sell takers and for Buy takers
\* that carry a quote budget.
C1_PriceTimePriority ==
    (Returned /\ ValidOrder(call.order)) =>
        \A k \in 1..Len(ret.v.matches) :
            \A i \in 1..Len(OppositeBefore) :
                i < MakerLoc(ret.v.matches[k]) => ~StillResting(OppositeBefore[i])

\* best bid below best ask whenever both sides hold orders
Uncrossed(book) ==
    \A i \in 1..Len(book.bids) : \A j \in 1..Len(book.asks) :
        book.bids[i].price < book.asks[j].price

\* C2 (as claimed): with valid orders and no abort the book is not crossed
\* when a call returns.
C2_NeverCrossed ==
    /\ (Returned /\ ValidOrder(call.order) /\ Uncrossed(before)) => Uncrossed(book_now)
    /\ (call.op \in {"cancel_order", "cancel_orders"} /\ Uncrossed(before))
            => Uncrossed(book_now)

\* C3 (as claimed): every match of a Buy with a quote budget costs at most the
\* native budget left by the matches before it, so the matches together cost
\* at most available_quote_lots * quote_lot_size.
C3_BuyWithinBudget ==
    (Returned /\ ValidOrder(call.order) /\ call.order.side = "Buy") =>
        \A k \in 1..Len(ret.v.matches) :
            ret.v.matches[k].native_quote_paid
                <= call.order.available_quote_lots.v * call.order.quote_lot_size
                    - SumPaid(ret.v.matches, k - 1)

(***************************************************************************)
(* Value locked (l2/open_limit_order.rs, l2/traits.rs, l2/tvl.rs).         *)
(***************************************************************************)
Tvl(base_locked, quote_locked) ==
    [base_locked |-> base_locked, quote_locked |-> quote_locked]

tvl_add(a, b) ==
    Tvl(a.base_locked + b.base_locked, a.quote_locked + b.quote_locked)

\* OpenLimitOrder::value_locked
order_value_locked(o, base_lot_size, quote_lot_size, base_denomination) ==
    IF o.side.v = "Buy"
    THEN Tvl(0, get_bid_quote_value(o.open_qty_lots, o.limit_price_lots.v,
                                    base_lot_size, quote_lot_size, base_denomination))
    ELSE Tvl(o.open_qty_lots * base_lot_size, 0)

\* ValueLocked for an OrderIter: the sum over iter()
RECURSIVE iter_value_locked(_, _, _, _)
iter_value_locked(os, base_lot_size, quote_lot_size, base_denomination) ==
    IF Len(os) = 0 THEN Tvl(0, 0)
    ELSE tvl_add(order_value_locked(Head(os), base_lot_size, quote_lot_size,
                                    base_denomination),
                 iter_value_locked(Tail(os), base_lot_size, quote_lot_size,
                                   base_denomination))

\* value locked in both sides of a book
book_value_locked(book, base_lot_size, quote_lot_size, base_denomination) ==
    tvl_add(iter_value_locked(l2_iter(book.bids, TRUE), base_lot_size, quote_lot_size,
                              base_denomination),
            iter_value_locked(l2_iter(book.asks, FALSE), base_lot_size, quote_lot_size,
                              base_denomination))

\* the value a NewOrder brings in: the quote budget of a Buy, the base
\* quantity of a Sell
new_order_value_locked(o) ==
    IF o.side = "Buy"
    THEN Tvl(0, UnwrapOrDefault(o.available_quote_lots) * o.quote_lot_size)
    ELSE Tvl(o.max_qty_lots * o.base_lot_size, 0)

\* the value traded through the matches of a PlaceOrderResult
RECURSIVE matches_value(_, _)
matches_value(matches, base_lot_size) ==
    IF Len(matches) = 0 THEN Tvl(0, 0)
    ELSE tvl_add(Tvl(Head(matches).fill_qty_lots * base_lot_size,
                     Head(matches).native_quote_paid),
                 matches_value(Tail(matches), base_lot_size))

result_value_locked(result, base_lot_size) == matches_value(result.matches, base_lot_size)

BookTvl(book) == book_value_locked(book, lot_params[1], lot_params[2], lot_params[3])

TvlBefore == tvl_add(BookTvl(before), new_order_value_locked(call.order))

TvlAfter == tvl_add(BookTvl(book_now), result_value_locked(ret.v, lot_params[1]))

\* C4 (as claimed): value after the call plus value traded equals value before
\* the call plus the value of the new order, in base and in quote.
C4_ConservationExact ==
    (Returned /\ ValidOrder(call.order)) => TvlAfter = TvlBefore

\* C4 (amended): the base component is conserved exactly by every valid Buy
\* and by every valid Limit Sell.
C4_BaseConserved ==
    (Returned /\ ValidOrder(call.order)
        /\ (call.order.side = "Buy" \/ call.order.order_type = "Limit"))
    => TvlAfter.base_locked = TvlBefore.base_locked

\* a Limit Sell that filled part against resting bids and posted the rest
C4_Witness ==
    /\ Returned /\ ValidOrder(call.order)
    /\ call.order.side = "Sell" /\ call.order.order_type = "Limit"
    /\ ret.v.outcome = "PartialFill"
    /\ ret.v.open_qty_lots > 0
    /\ TvlAfter.base_locked = TvlBefore.base_locked

\* C5 (as claimed): placing a valid order creates no value: value after the
\* call plus value traded is at most value before plus the new order's value,
\* in base and in quote.
C5_NoValueCreated ==
    (Returned /\ ValidOrder(call.order)) =>
        /\ TvlAfter.base_locked <= TvlBefore.base_locked
        /\ TvlAfter.quote_locked <= TvlBefore.quote_locked

\* C6 (as claimed): a place_order call either returns a result or leaves both
\* sides of the book as they were.
C6_AtomicOnAbort ==
    Placed => (ret.some \/ book_now = before)

\* C7: a Rejected call leaves the book and its value locked as they were and
\* reports no fill, no open quantity, no quote amount and no match.
C7_RejectedLeavesBook ==
    (Returned /\ ret.v.outcome = "Rejected") =>
        /\ bids = before.bids
        /\ asks = before.asks
        /\ BookTvl(book_now) = BookTvl(before)
        /\ ret.v.fill_qty_lots = 0
        /\ ret.v.open_qty_lots = 0
        /\ ret.v.quote_amount_lots = 0
        /\ ret.v.matches = <<>>

\* an order rejected although the walk found a crossing maker
C7_Witness ==
    /\ Returned /\ ret.v.outcome = "Rejected"
    /\ Len(walk.matches) > 0
    /\ book_now = before
    /\ call.order.available_quote_lots.some
    /\ walk.unused_quote_lots # call.order.available_quote_lots

AllResting(book) == l2_iter(book.bids, TRUE) \o l2_iter(book.asks, FALSE)

RECURSIVE FillsOf(_, _)
\* the quantity the matches take from the maker with this id
FillsOf(matches, order_id) ==
    IF Len(matches) = 0 THEN 0
    ELSE (IF Head(matches).maker_order_id = order_id
          THEN Head(matches).fill_qty_lots ELSE 0)
         + FillsOf(Tail(matches), order_id)

\* the order is retrievable by its id with owner, side, price and client id
\* as before and the given open quantity
RestsWith(o, qty) ==
    LET now == ob_get_order(book_now, order_id_of(o))
    IN  /\ now.some
        /\ now.v.owner_id = o.owner_id
        /\ now.v.side = o.side
        /\ now.v.limit_price_lots = o.limit_price_lots
        /\ now.v.client_id = o.client_id
        /\ now.v.sequence_number = o.sequence_number
        /\ now.v.open_qty_lots = qty

Gone(o) == ~ob_get_order(book_now, order_id_of(o)).some

CancelledIds ==
    CASE call.op = "cancel_order" -> {call.order_id}
      [] call.op = "cancel_orders" ->
            {call.order_ids[i] : i \in 1..Len(call.order_ids)}
      [] OTHER -> {}

\* C9: over a call that returns, an order resting before it stays retrievable
\* by its id with the same owner, side, price and client id; its open quantity
\* drops exactly by the fills of the matches that name it; it leaves the book
\* only when those fills reach its open quantity or a cancel names it.
C9_RestingOrderStable ==
    (~Idle /\ ~error.some) =>
        \A i \in 1..Len(AllResting(before)) :
            LET o == AllResting(before)[i]
                filled == IF Returned THEN FillsOf(ret.v.matches, order_id_of(o)) ELSE 0
            IN  /\ filled <= o.open_qty_lots
                /\ IF order_id_of(o) \in CancelledIds \/ filled = o.open_qty_lots
                   THEN Gone(o)
                   ELSE RestsWith(o, o.open_qty_lots - filled)

\* a maker was filled in part and still rests, next to an untouched order
C9_Witness ==
    /\ Returned
    /\ \E i \in 1..Len(AllResting(before)) :
            LET o == AllResting(before)[i]
                filled == FillsOf(ret.v.matches, order_id_of(o))
            IN  /\ filled > 0 /\ filled < o.open_qty_lots
                /\ o.client_id.some
                /\ RestsWith(o, o.open_qty_lots - filled)
    /\ \E i \in 1..Len(AllResting(before)) :
            LET o == AllResting(before)[i]
            IN  /\ FillsOf(ret.v.matches, order_id_of(o)) = 0
                /\ RestsWith(o, o.open_qty_lots)

\* the walk over the makers ahead of position k of the opposite side
WalkAhead(k) ==
    match_walk(SubSeq(l2_iter(OppositeBefore, OppositeIsBids), 1, k - 1), 1,
               call.user_id, call.order,
               [unfilled_qty_lots |-> call.order.max_qty_lots,
                unused_quote_lots |-> call.order.available_quote_lots,
                matches |-> <<>>, error |-> None])

\* position k holds the first resting order of the placing user, the incoming
\* order crosses it, and the makers ahead of it were all matched without
\* exhausting the incoming quantity
ReachesOwnOrder(k) ==
    /\ OppositeBefore[k].order.owner_id = call.user_id
    /\ \A j \in 1..(k - 1) : OppositeBefore[j].order.owner_id # call.user_id
    /\ \/ ~call.order.limit_price_lots.some
       \/ check_if_crossed(call.order.side, OppositeBefore[k].price,
                           call.order.limit_price_lots.v)
    /\ Len(WalkAhead(k).matches) = k - 1
    /\ WalkAhead(k).unfilled_qty_lots > 0

\* C10: place_order aborts with the self-trade error, leaving the book as it
\* was, exactly when the walk reaches a resting order of the placing user
\* while the incoming order crosses it and has quantity left.
C10_SelfTradeAborts ==
    Placed =>
        /\ (error = Some(SELF_TRADE))
            <=> (\E k \in 1..Len(OppositeBefore) : ReachesOwnOrder(k))
        /\ error = Some(SELF_TRADE) => (book_now = before /\ ~ret.some)

\* the walk filled a maker of another user and then met an order of the
\* placing user
C10_Witness ==
    /\ Placed /\ error = Some(SELF_TRADE)
    /\ book_now = before
    /\ \E k \in 2..Len(OppositeBefore) : ReachesOwnOrder(k)

\* an own order on the opposite side that the walk did not reach: no abort
C10_WitnessUnreached ==
    /\ Returned
    /\ \E k \in 1..Len(OppositeBefore) :
            OppositeBefore[k].order.owner_id = call.user_id
    /\ Len(ret.v.matches) > 0

(***************************************************************************)
(* Order types and the outcome of place_order.                             *)
(***************************************************************************)
OwnBefore == IF call.order.side = "Buy" THEN before.bids ELSE before.asks

OwnNow == IF call.order.side = "Buy" THEN bids ELSE asks

ReturnedType(order_type) == Returned /\ call.order.order_type = order_type

\* resting orders of the walked side whose price the taker's limit reaches
CrossingBefore ==
    {i \in 1..Len(OppositeBefore) :
        \/ ~call.order.limit_price_lots.some
        \/ check_if_crossed(call.order.side, OppositeBefore[i].price,
                            call.order.limit_price_lots.v)}

\* the new order rests whole on its own side, next to the orders that were
\* there before
PostedWhole ==
    /\ Len(OwnNow) = Len(OwnBefore) + 1
    /\ \E i \in 1..Len(OwnNow) :
        /\ OwnNow[i].order.sequence_number = call.order.sequence_number
        /\ OwnNow[i].price = call.order.limit_price_lots.v
        /\ OwnNow[i].order.open_qty_lots = call.order.max_qty_lots
        /\ RemoveAt(OwnNow, i) = OwnBefore

\* C11: a PostOnly order that returns is Rejected exactly when the walk
\* filled some quantity (and then some resting order crosses its limit);
\* otherwise it is Posted whole with no fill, no match, and the opposite
\* side as it was.
C11_PostOnlyNeverTakes ==
    ReturnedType("PostOnly") =>
        /\ ret.v.matches = <<>>
        /\ ret.v.fill_qty_lots = 0
        /\ OppositeNow = OppositeBefore
        /\ (ret.v.outcome = "Rejected") <=> (walk.matches # <<>>)
        /\ ret.v.outcome = "Rejected" => CrossingBefore # {}
        /\ ret.v.outcome # "Rejected" =>
                /\ ret.v.outcome = "Posted"
                /\ ret.v.open_qty_lots = call.order.max_qty_lots
                /\ PostedWhole

\* a PostOnly order that would have traded was rejected
C11_Witness ==
    /\ ReturnedType("PostOnly")
    /\ ret.v.outcome = "Rejected"
    /\ walk.matches # <<>>

\* a PostOnly order was posted next to a non-empty opposite side
C11_WitnessPosted ==
    /\ ReturnedType("PostOnly")
    /\ ret.v.outcome = "Posted"
    /\ OppositeBefore # <<>>

\* open quantity of the first n orders of the walked side that cross the
\* taker's limit
RECURSIVE CrossingLiquidity(_)
CrossingLiquidity(n) ==
    IF n = 0 THEN 0
    ELSE (IF n \in CrossingBefore THEN OppositeBefore[n].order.open_qty_lots ELSE 0)
            + CrossingLiquidity(n - 1)

C12_WitnessFilled ==
    /\ ReturnedType("FillOrKill")
    /\ ret.v.outcome = "Filled"
    /\ ret.v.fill_qty_lots = call.order.max_qty_lots

\* what an order without a quote budget takes: all that crosses, up to
\* max_qty_lots
TakesAllThatCrosses ==
    ret.v.fill_qty_lots
        = Min(call.order.max_qty_lots, CrossingLiquidity(Len(OppositeBefore)))

OutcomeTable(order, fill_qty_lots) ==
    IF order.max_qty_lots - fill_qty_lots = 0 THEN "Filled"
    ELSE IF order.order_type = "Market" THEN "Filled"
    ELSE IF order.max_qty_lots - fill_qty_lots = order.max_qty_lots
            /\ order.order_type \in {"Limit", "PostOnly"}
    THEN "Posted"
    ELSE "PartialFill"

C15_WitnessPosted ==
    /\ ReturnedType("Limit")
    /\ ret.v.outcome = "Posted"
    /\ OppositeBefore # <<>>
    /\ CrossingBefore = {}

(***************************************************************************)
(* The result of place_order against the book.                             *)
(***************************************************************************)
\* the new order as get_order(result.id) must hand it out when it rests
RestsAsPlaced(o) ==
    /\ o.side = Some(call.order.side)
    /\ o.limit_price_lots = call.order.limit_price_lots
    /\ o.sequence_number = call.order.sequence_number
    /\ o.owner_id = call.user_id
    /\ o.open_qty_lots = ret.v.open_qty_lots
    /\ o.open_qty_lots = call.order.max_qty_lots - ret.v.fill_qty_lots

\* C16: when place_order returns, result.open_qty_lots > 0 exactly if the
\* order was posted: then get_order(result.id) is the order resting on its
\* side at its limit price with its sequence number, owner user_id and
\* open_qty_lots = result.open_qty_lots = max_qty_lots - fill_qty_lots;
\* otherwise get_order(result.id) is None and the own side is as before.
C16_OpenIffPosted ==
    Returned =>
        IF ret.v.open_qty_lots > 0
        THEN /\ ob_get_order(book_now, ret.v.id).some
             /\ RestsAsPlaced(ob_get_order(book_now, ret.v.id).v)
             /\ Len(OwnNow) = Len(OwnBefore) + 1
        ELSE /\ ob_get_order(book_now, ret.v.id) = None
             /\ OwnNow = OwnBefore

\* an order traded part of its quantity and rests with the remainder
C16_Witness ==
    /\ Returned
    /\ ret.v.open_qty_lots > 0
    /\ ret.v.fill_qty_lots > 0
    /\ ob_get_order(book_now, ret.v.id).some

\* the resting entry of the walked side, after the call, that a match names
\* (the empty set if it is gone)
MakerNow(m) ==
    {j \in 1..Len(OppositeNow) :
        /\ OppositeNow[j].price = get_order_id_parts(m.maker_order_id).price
        /\ OppositeNow[j].order.sequence_number
                = get_order_id_parts(m.maker_order_id).seq}

\* C17: when place_order returns, every match names a maker that rested on
\* the walked side before the call; a maker reported removed is gone and its
\* open quantity equalled the fill; a maker reported kept rests at the same
\* price and sequence number with its open quantity reduced by the fill and
\* still positive.
C17_MakersUpdatedByFill ==
    Returned =>
        \A k \in 1..Len(ret.v.matches) :
            /\ MakerLoc(ret.v.matches[k]) > 0
            /\ ret.v.matches[k].maker_order_removed.some
            /\ IF ret.v.matches[k].maker_order_removed.v
               THEN /\ MakerNow(ret.v.matches[k]) = {}
                    /\ OppositeBefore[MakerLoc(ret.v.matches[k])].order.open_qty_lots
                            = ret.v.matches[k].fill_qty_lots
               ELSE /\ Cardinality(MakerNow(ret.v.matches[k])) = 1
                    /\ \A j \in MakerNow(ret.v.matches[k]) :
                        /\ OppositeNow[j].order.open_qty_lots
                            = OppositeBefore[MakerLoc(ret.v.matches[k])].order.open_qty_lots
                                - ret.v.matches[k].fill_qty_lots
                        /\ OppositeNow[j].order.open_qty_lots > 0

\* one call removed a maker and left the next one partly filled
C17_Witness ==
    /\ Returned
    /\ \E k \in 1..Len(ret.v.matches) : ret.v.matches[k].maker_order_removed = Some(TRUE)
    /\ \E k \in 1..Len(ret.v.matches) : ret.v.matches[k].maker_order_removed = Some(FALSE)

\* price and sequence number of the maker a match names
MakerPrice(m) == get_order_id_parts(m.maker_order_id).price

MakerSeq(m) == get_order_id_parts(m.maker_order_id).seq

\* C18: when place_order returns, every match is priced at the resting
\* price of the maker it names, and within the taker's limit price when the
\* taker has one: not above it for a Buy, not below it for a Sell.
C18_FillAtMakerPriceWithinLimit ==
    Returned =>
        \A k \in 1..Len(ret.v.matches) :
            /\ MakerLoc(ret.v.matches[k]) > 0
            /\ ret.v.matches[k].fill_price_lots
                    = OppositeBefore[MakerLoc(ret.v.matches[k])].price
            /\ Some(ret.v.matches[k].fill_price_lots)
                    = l2_iter(OppositeBefore, OppositeIsBids)
                            [MakerLoc(ret.v.matches[k])].limit_price_lots
            /\ call.order.limit_price_lots.some =>
                    IF call.order.side = "Buy"
                    THEN ret.v.matches[k].fill_price_lots <= call.order.limit_price_lots.v
                    ELSE ret.v.matches[k].fill_price_lots >= call.order.limit_price_lots.v

\* a taker with a limit price traded at a better price than its limit
C18_Witness ==
    /\ Returned
    /\ call.order.limit_price_lots.some
    /\ \E k \in 1..Len(ret.v.matches) :
            ret.v.matches[k].fill_price_lots # call.order.limit_price_lots.v

\* C19: the matches of a returned result are in walk order: from one match
\* to the next the price does not fall for a Buy taker and does not rise for
\* a Sell taker, the makers' price rank does not fall, makers at one price
\* come in strictly ascending sequence number, and no maker is named twice.
C19_MatchesInWalkOrder ==
    Returned =>
        /\ \A k \in 1..(Len(ret.v.matches) - 1) :
            /\ IF call.order.side = "Buy"
               THEN ret.v.matches[k].fill_price_lots <= ret.v.matches[k + 1].fill_price_lots
               ELSE ret.v.matches[k].fill_price_lots >= ret.v.matches[k + 1].fill_price_lots
            /\ get_price_rank(OppositeBefore, OppositeIsBids, MakerPrice(ret.v.matches[k]))
                    <= get_price_rank(OppositeBefore, OppositeIsBids,
                                      MakerPrice(ret.v.matches[k + 1]))
            /\ ret.v.matches[k].fill_price_lots = ret.v.matches[k + 1].fill_price_lots
                    => MakerSeq(ret.v.matches[k]) < MakerSeq(ret.v.matches[k + 1])
        /\ \A k \in 1..Len(ret.v.matches) : \A l \in 1..Len(ret.v.matches) :
                ret.v.matches[k].maker_order_id = ret.v.matches[l].maker_order_id => k = l

\* a Sell taker walked two price levels of the bids
C19_Witness ==
    /\ Returned
    /\ call.order.side = "Sell"
    /\ Len(ret.v.matches) >= 2
    /\ ret.v.matches[1].fill_price_lots > ret.v.matches[2].fill_price_lots

\* a taker walked two makers of one price level
C19_WitnessSamePrice ==
    /\ Returned
    /\ Len(ret.v.matches) >= 2
    /\ ret.v.matches[1].fill_price_lots = ret.v.matches[2].fill_price_lots

RECURSIVE SumFill(_, _)
SumFill(matches, n) ==
    IF n = 0 THEN 0 ELSE matches[n].fill_qty_lots + SumFill(matches, n - 1)

\* C20: the fill_qty_lots of every returned PlaceOrderResult is the sum of
\* fill_qty_lots over its matches.
C20_FillIsSumOfMatches ==
    Returned => ret.v.fill_qty_lots = SumFill(ret.v.matches, Len(ret.v.matches))

\* a result with two matches
C20_Witness ==
    /\ Returned
    /\ Len(ret.v.matches) >= 2
    /\ ret.v.fill_qty_lots = 2

(***************************************************************************)
(* Quantities and amounts of the result.                                   *)
(***************************************************************************)
\* C21: no place_order call that returns fills more than max_qty_lots, and
\* no walk leaves a negative quantity unfilled.
C21_NoOverSell ==
    /\ Returned => ret.v.fill_qty_lots <= call.order.max_qty_lots
    /\ Placed =>
            /\ walk.unfilled_qty_lots >= 0
            /\ SumFill(walk.matches, Len(walk.matches)) + walk.unfilled_qty_lots
                    = call.order.max_qty_lots

\* an order was filled to the last lot by two makers whose liquidity exceeds it
C21_Witness ==
    /\ Returned
    /\ ret.v.fill_qty_lots = call.order.max_qty_lots
    /\ Len(ret.v.matches) >= 2
    /\ OppositeNow # <<>>

\* C22: for a Buy with a quote budget that is not Rejected,
\* quote_amount_lots is the budget minus the quote lots the walk left unused
\* and at most the budget; for a Sell and for a Rejected order it is 0.
C22_NoOverSpendInLots ==
    Returned =>
        /\ (call.order.side = "Buy" /\ call.order.available_quote_lots.some
                /\ ret.v.outcome # "Rejected") =>
                /\ walk.unused_quote_lots.some
                /\ walk.unused_quote_lots.v >= 0
                /\ ret.v.quote_amount_lots
                        = call.order.available_quote_lots.v - walk.unused_quote_lots.v
                /\ ret.v.quote_amount_lots <= call.order.available_quote_lots.v
        /\ call.order.side = "Sell" => ret.v.quote_amount_lots = 0
        /\ ret.v.outcome = "Rejected" => ret.v.quote_amount_lots = 0

\* a Buy spent part of its budget
C22_Witness ==
    /\ Returned
    /\ call.order.side = "Buy"
    /\ call.order.available_quote_lots.some
    /\ ret.v.quote_amount_lots > 0
    /\ ret.v.quote_amount_lots < call.order.available_quote_lots.v

\* fill_qty_lots > 0 and native_quote_paid = bid_quote_value(fill, price)
MatchPriced(m, order) ==
    /\ m.fill_qty_lots > 0
    /\ m.native_quote_paid
            = (m.fill_qty_lots * order.base_lot_size * m.fill_price_lots
                    * order.quote_lot_size) \div order.base_denomination
    /\ m.native_quote_paid
            = get_bid_quote_value(m.fill_qty_lots, m.fill_price_lots, order.base_lot_size,
                                  order.quote_lot_size, order.base_denomination)

\* C23: every Match of a walk, and every Match of a returned result, has
\* fill_qty_lots > 0 and native_quote_paid = floor(fill_qty_lots *
\* base_lot_size * fill_price_lots * quote_lot_size / base_denomination).
C23_MatchPricedByBidQuoteValue ==
    Placed =>
        /\ \A k \in 1..Len(walk.matches) : MatchPriced(walk.matches[k], call.order)
        /\ ret.some =>
                \A k \in 1..Len(ret.v.matches) : MatchPriced(ret.v.matches[k], call.order)

\* a match whose exact price is not a whole number of native quote units
C23_Witness ==
    /\ Returned
    /\ \E k \in 1..Len(ret.v.matches) :
            (ret.v.matches[k].fill_qty_lots * call.order.base_lot_size
                * ret.v.matches[k].fill_price_lots * call.order.quote_lot_size)
                    % call.order.base_denomination # 0

\* C24: every order resting in the book has open_qty_lots >= 1.
C24_RestingOrdersOpen ==
    /\ \A i \in 1..Len(bids) : bids[i].order.open_qty_lots >= 1
    /\ \A i \in 1..Len(asks) : asks[i].order.open_qty_lots >= 1

\* a maker rests on after a partial fill, next to what the taker posted
C24_Witness ==
    /\ Returned
    /\ \E k \in 1..Len(ret.v.matches) : ret.v.matches[k].maker_order_removed = Some(FALSE)
    /\ OppositeNow # <<>>

(***************************************************************************)
(* Cancels.                                                                *)
(***************************************************************************)
EntryId(e, reverse_prices) ==
    new_order_id(L2Side(reverse_prices), e.price, e.order.sequence_number)

\* ids of the orders resting in a book
IdsOf(book) ==
    {EntryId(book.bids[i], TRUE) : i \in 1..Len(book.bids)}
        \cup {EntryId(book.asks[i], FALSE) : i \in 1..Len(book.asks)}

\* a side without the entries whose id is in ids, the others in place
RECURSIVE Without(_, _, _)
Without(orders, reverse_prices, ids) ==
    IF Len(orders) = 0 THEN <<>>
    ELSE IF EntryId(Head(orders), reverse_prices) \in ids
    THEN Without(Tail(orders), reverse_prices, ids)
    ELSE <<Head(orders)>> \o Without(Tail(orders), reverse_prices, ids)

\* equal but for the price rank, which is the rank at the time of the read
SameOrder(o1, o2) == [o1 EXCEPT !.price_rank = None] = [o2 EXCEPT !.price_rank = None]

ListedIds == {call.order_ids[i] : i \in 1..Len(call.order_ids)}

\* position of the first occurrence of an id in the list of the call
FirstListed(id) ==
    CHOOSE i \in 1..Len(call.order_ids) :
        /\ call.order_ids[i] = id
        /\ \A j \in 1..(i - 1) : call.order_ids[j] # id

\* C25: cancel_orders(ids) removes exactly the listed orders that rest,
\* returns each of them once, in the order of the list, as it rested; ids
\* that are absent or repeated are skipped and the ids after them are still
\* processed; unlisted orders stay in place unchanged; the same list applied
\* again removes nothing and returns the empty list.
C25_CancelOrdersExact ==
    call.op = "cancel_orders" =>
        /\ bids = Without(before.bids, TRUE, ListedIds)
        /\ asks = Without(before.asks, FALSE, ListedIds)
        /\ Len(ret.v) = Cardinality(ListedIds \cap IdsOf(before))
        /\ \A k \in 1..Len(ret.v) :
            /\ order_id_of(ret.v[k]) \in ListedIds \cap IdsOf(before)
            /\ SameOrder(ret.v[k], ob_get_order(before, order_id_of(ret.v[k])).v)
            /\ \A l \in 1..Len(ret.v) :
                    k < l => FirstListed(order_id_of(ret.v[k]))
                                < FirstListed(order_id_of(ret.v[l]))
        /\ cancel_orders(book_now, call.order_ids)
                = [book |-> book_now, deleted |-> <<>>]

\* a batch whose first id was absent removed the order named second, and
\* left another order resting
C25_Witness ==
    /\ call.op = "cancel_orders"
    /\ Len(call.order_ids) = 2
    /\ call.order_ids[1] \notin IdsOf(before)
    /\ Len(ret.v) = 1
    /\ IdsOf(book_now) # {}

\* a batch that names one resting order twice
C25_WitnessRepeated ==
    /\ call.op = "cancel_orders"
    /\ Len(call.order_ids) = 2
    /\ call.order_ids[1] = call.order_ids[2]
    /\ Len(ret.v) = 1

\* C26: cancel_order of a resting order returns that order with side, price
\* and open quantity populated, removes it alone, and get_order(id) is None
\* afterwards; cancel_order of an id that is not in the book returns None
\* and leaves the book unchanged; cancelling the same id again returns None
\* and changes nothing.
C26_CancelOrderIdempotent ==
    call.op = "cancel_order" =>
        /\ IF call.order_id \in IdsOf(before)
           THEN /\ ret.some
                /\ ret = ob_get_order(before, call.order_id)
                /\ ret.v.side = Some(get_order_id_parts(call.order_id).side)
                /\ ret.v.limit_price_lots = Some(get_order_id_parts(call.order_id).price)
                /\ ret.v.sequence_number = get_order_id_parts(call.order_id).seq
                /\ ret.v.open_qty_lots >= 1
                /\ bids = Without(before.bids, TRUE, {call.order_id})
                /\ asks = Without(before.asks, FALSE, {call.order_id})
                /\ Len(bids) + Len(asks) + 1 = Len(before.bids) + Len(before.asks)
           ELSE /\ ret = None
                /\ book_now = before
        /\ ob_get_order(book_now, call.order_id) = None
        /\ cancel_order(book_now, call.order_id) = [book |-> book_now, ret |-> None]

\* a resting order was cancelled and another one stayed
C26_Witness ==
    /\ call.op = "cancel_order"
    /\ call.order_id \in IdsOf(before)
    /\ ret.some
    /\ IdsOf(book_now) # {}

\* an id that is no longer in the book was cancelled
C26_WitnessAbsent ==
    /\ call.op = "cancel_order"
    /\ call.order_id \notin IdsOf(before)
    /\ IdsOf(before) # {}

(***************************************************************************)
(* Best bid and offer.                                                     *)
(***************************************************************************)
\* (p1, s1) <= (p2, s2) with prices and sequence numbers compared as numbers
PairLeq(p1, s1, p2, s2) == p1 < p2 \/ (p1 = p2 /\ s1 <= s2)

\* C27: find_bbo(Buy) is None exactly when there is no bid and otherwise the
\* resting bid with the largest (price, sequence_number), so it has the
\* highest bid price; find_bbo(Sell) is None exactly when there is no ask
\* and otherwise the resting ask with the smallest (price, sequence_number),
\* so it has the lowest ask price.
C27_FindBbo ==
    /\ (find_bbo(book_now, "Buy") = None) <=> (bids = <<>>)
    /\ (find_bbo(book_now, "Sell") = None) <=> (asks = <<>>)
    /\ bids # <<>> =>
            \E i \in 1..Len(bids) :
                /\ find_bbo(book_now, "Buy").v = l2_iter(bids, TRUE)[i]
                /\ find_bbo(book_now, "Buy").v.limit_price_lots = Some(bids[i].price)
                /\ find_bbo(book_now, "Buy").v.side = Some("Buy")
                /\ \A k \in 1..Len(bids) :
                    /\ PairLeq(bids[k].price, bids[k].order.sequence_number,
                               bids[i].price, bids[i].order.sequence_number)
                    /\ bids[k].price <= bids[i].price
    /\ asks # <<>> =>
            \E i \in 1..Len(asks) :
                /\ find_bbo(book_now, "Sell").v = l2_iter(asks, FALSE)[i]
                /\ find_bbo(book_now, "Sell").v.limit_price_lots = Some(asks[i].price)
                /\ find_bbo(book_now, "Sell").v.side = Some("Sell")
                /\ \A k \in 1..Len(asks) :
                    /\ PairLeq(asks[i].price, asks[i].order.sequence_number,
                               asks[k].price, asks[k].order.sequence_number)
                    /\ asks[i].price <= asks[k].price

\* two bids share the highest bid price and an ask rests on the other side
C27_Witness ==
    /\ Len(bids) >= 2
    /\ bids[1].price = bids[2].price
    /\ asks # <<>>

\* bids at two prices
C27_WitnessLevels ==
    /\ Len(bids) >= 2
    /\ bids[1].price # bids[2].price

(***************************************************************************)
(* One L2 side on its own (l2/vec.rs): save_order and delete_order called  *)
(* directly, with sequence numbers in any order, as the tests of VecL2 do. *)
(* The side under test is bids or asks; the other side stays empty.        *)
(***************************************************************************)
\* make_order of the VecL2 tests, with the quantity as a parameter
make_order(reverse_prices, price, sequence_number, open_qty_lots) ==
    [sequence_number |-> sequence_number,
     owner_id |-> "a.near",
     open_qty_lots |-> open_qty_lots,
     client_id |-> None,
     limit_price_lots |-> Some(price),
     side |-> Some(L2Side(reverse_prices)),
     price_rank |-> None]

\* the side under test
SideOf(book, reverse_prices) == IF reverse_prices THEN book.bids ELSE book.asks

OtherSideEmpty(reverse_prices) == IF reverse_prices THEN asks = <<>> ELSE bids = <<>>

InitL2 ==
    /\ bids = <<>>
    /\ asks = <<>>
    /\ prev = 0
    /\ lot_params = <<1, 1, 1>>
    /\ call = [op |-> "new"]
    /\ before = EmptyBook
    /\ ret = None
    /\ error = None
    /\ walk = NoWalk

SaveOrder ==
    \E reverse_prices \in BOOLEAN, price \in Prices, seq \in 1..MaxSeq,
       open_qty_lots \in 1..MaxQty :
        /\ OtherSideEmpty(reverse_prices)
        /\ \E order \in {make_order(reverse_prices, price, seq, open_qty_lots)} :
            /\ bids' = IF reverse_prices THEN save_order(bids, TRUE, order) ELSE bids
            /\ asks' = IF reverse_prices THEN asks ELSE save_order(asks, FALSE, order)
            /\ call' = [op |-> "save_order", reverse_prices |-> reverse_prices,
                        order |-> order]
            /\ before' = book_now
            /\ ret' = None
            /\ UNCHANGED <<prev, lot_params, error, walk>>

DeleteOrder ==
    \E reverse_prices \in BOOLEAN, price \in Prices, seq \in 1..MaxSeq :
        /\ OtherSideEmpty(reverse_prices)
        /\ \E d \in {delete_order(SideOf(book_now, reverse_prices), reverse_prices,
                                  price, seq)} :
            /\ bids' = IF reverse_prices THEN d.orders ELSE bids
            /\ asks' = IF reverse_prices THEN asks ELSE d.orders
            /\ call' = [op |-> "delete_order", reverse_prices |-> reverse_prices,
                        price_lots |-> price, seq |-> seq]
            /\ before' = book_now
            /\ ret' = d.ret
            /\ UNCHANGED <<prev, lot_params, error, walk>>

NextL2 == SaveOrder \/ DeleteOrder

SpecL2 == InitL2 /\ [][NextL2]_vars

\* strictly ordered: price descending for bids and ascending for asks,
\* sequence number ascending within a price
StrictlyOrdered(orders, reverse_prices) ==
    \A i \in 1..(Len(orders) - 1) :
        \/ IF reverse_prices THEN orders[i].price > orders[i + 1].price
                             ELSE orders[i].price < orders[i + 1].price
        \/ /\ orders[i].price = orders[i + 1].price
           /\ orders[i].order.sequence_number < orders[i + 1].order.sequence_number

\* positions of a (price, sequence_number) in a side
KeyLocs(orders, price, seq) ==
    {i \in 1..Len(orders) :
        orders[i].price = price /\ orders[i].order.sequence_number = seq}

\* C28: after any sequence of save_order and delete_order calls a side is
\* strictly ordered by (effective price, sequence number) and so holds at
\* most one entry per (price, sequence_number); save_order of a key that is
\* present replaces that entry in place and keeps the length, save_order of
\* a new key adds one entry, delete_order removes the entry of its key.
C28_L2SortInvariant ==
    /\ StrictlyOrdered(bids, TRUE)
    /\ StrictlyOrdered(asks, FALSE)
    /\ \A reverse_prices \in BOOLEAN, price \in Prices, seq \in 1..MaxSeq :
            Cardinality(KeyLocs(SideOf(book_now, reverse_prices), price, seq)) <= 1
    /\ call.op = "save_order" =>
            IF KeyLocs(SideOf(before, call.reverse_prices),
                       call.order.limit_price_lots.v, call.order.sequence_number) # {}
            THEN \E i \in KeyLocs(SideOf(before, call.reverse_prices),
                                  call.order.limit_price_lots.v,
                                  call.order.sequence_number) :
                    SideOf(book_now, call.reverse_prices)
                        = [SideOf(before, call.reverse_prices) EXCEPT
                            ![i] = [price |-> call.order.limit_price_lots.v,
                                    order |-> call.order]]
            ELSE /\ Len(SideOf(book_now, call.reverse_prices))
                        = Len(SideOf(before, call.reverse_prices)) + 1
                 /\ \E i \in KeyLocs(SideOf(book_now, call.reverse_prices),
                                     call.order.limit_price_lots.v,
                                     call.order.sequence_number) :
                        /\ SideOf(book_now, call.reverse_prices)[i].order = call.order
                        /\ RemoveAt(SideOf(book_now, call.reverse_prices), i)
                                = SideOf(before, call.reverse_prices)
    /\ call.op = "delete_order" =>
            /\ KeyLocs(SideOf(book_now, call.reverse_prices), call.price_lots, call.seq) = {}
            /\ ret.some <=> KeyLocs(SideOf(before, call.reverse_prices),
                                     call.price_lots, call.seq) # {}
            /\ Len(SideOf(book_now, call.reverse_prices))
                    = Len(SideOf(before, call.reverse_prices))
                        - (IF ret.some THEN 1 ELSE 0)

\* save_order replaced an entry between two others with a new quantity
C28_Witness ==
    /\ call.op = "save_order"
    /\ \E i \in 2..(Len(SideOf(before, call.reverse_prices)) - 1) :
        /\ i \in KeyLocs(SideOf(before, call.reverse_prices),
                          call.order.limit_price_lots.v, call.order.sequence_number)
        /\ SideOf(before, call.reverse_prices)[i].order.open_qty_lots
                # call.order.open_qty_lots

\* save_order put an older sequence number in front of a younger one of the
\* same price
C28_WitnessOutOfOrder ==
    /\ call.op = "save_order"
    /\ \E i \in 1..Len(SideOf(before, call.reverse_prices)) :
        /\ SideOf(before, call.reverse_prices)[i].price = call.order.limit_price_lots.v
        /\ SideOf(before, call.reverse_prices)[i].order.sequence_number
                > call.order.sequence_number
    /\ KeyLocs(SideOf(before, call.reverse_prices),
               call.order.limit_price_lots.v, call.order.sequence_number) = {}

\* prices a rank is asked for: the prices of orders and one beyond each end
RankPrices == 0..(MaxPrice + 1)

\* the distinct price levels of a side
Levels(orders) == {orders[i].price : i \in 1..Len(orders)}

\* levels strictly better than price: lower for asks, higher for bids
BetterLevels(orders, reverse_prices, price) ==
    {q \in Levels(orders) : IF reverse_prices THEN q > price ELSE q < price}

\* C29: get_price_rank(price) is the number of distinct price levels of the
\* side strictly better than price (lower for asks, higher for bids): the
\* dense best-first rank of a present level, rank 0 being best, and the
\* index at which an absent level would be inserted.
C29_DensePriceRank ==
    \A reverse_prices \in BOOLEAN, price \in RankPrices :
        /\ get_price_rank(SideOf(book_now, reverse_prices), reverse_prices, price)
                = Cardinality(BetterLevels(SideOf(book_now, reverse_prices),
                                           reverse_prices, price))
        /\ get_price_rank_result(SideOf(book_now, reverse_prices), reverse_prices,
                                 price).ok
                <=> price \in Levels(SideOf(book_now, reverse_prices))

\* a side with two price levels, the better one holding two orders
C29_Witness ==
    \E reverse_prices \in BOOLEAN :
        /\ Len(SideOf(book_now, reverse_prices)) >= 3
        /\ SideOf(book_now, reverse_prices)[1].price
                = SideOf(book_now, reverse_prices)[2].price
        /\ Cardinality(Levels(SideOf(book_now, reverse_prices))) = 2
        /\ get_price_rank(SideOf(book_now, reverse_prices), reverse_prices,
                          SideOf(book_now, reverse_prices)[3].price) = 1

\* p1 is at least as good as p2: lower or equal for asks, higher or equal
\* for bids
AsGood(reverse_prices, p1, p2) == IF reverse_prices THEN p1 >= p2 ELSE p1 <= p2

\* C30 (as claimed): on every side that holds orders and for all prices p1,
\* p2, present or not, get_price_rank(p1) <= get_price_rank(p2) exactly if
\* p1 <= p2 for asks and exactly if p1 >= p2 for bids.
C30_RankMonotoneIff ==
    \A reverse_prices \in BOOLEAN, p1 \in RankPrices, p2 \in RankPrices :
        SideOf(book_now, reverse_prices) # <<>> =>
        (get_price_rank(SideOf(book_now, reverse_prices), reverse_prices, p1)
            <= get_price_rank(SideOf(book_now, reverse_prices), reverse_prices, p2))
        <=> AsGood(reverse_prices, p1, p2)

\* C30 (amended): on every side and for all prices p1, p2, p1 <= p2 for
\* asks (p1 >= p2 for bids) implies get_price_rank(p1) <=
\* get_price_rank(p2); the converse holds when p2 is a price level of the
\* side, so the equivalence holds between present levels.
C30_RankMonotone ==
    \A reverse_prices \in BOOLEAN, p1 \in RankPrices, p2 \in RankPrices :
        /\ AsGood(reverse_prices, p1, p2) =>
                get_price_rank(SideOf(book_now, reverse_prices), reverse_prices, p1)
                    <= get_price_rank(SideOf(book_now, reverse_prices), reverse_prices, p2)
        /\ p2 \in Levels(SideOf(book_now, reverse_prices)) =>
                ((get_price_rank(SideOf(book_now, reverse_prices), reverse_prices, p1)
                    <= get_price_rank(SideOf(book_now, reverse_prices), reverse_prices, p2))
                 => AsGood(reverse_prices, p1, p2))

\* bids at two price levels
C30_Witness ==
    /\ Cardinality(Levels(bids)) = 2
    /\ get_price_rank(bids, TRUE, bids[1].price) = 0
    /\ get_price_rank(bids, TRUE, bids[Len(bids)].price) = 1

(***************************************************************************)
(* The order-id specification: new_order_id and get_order_id_parts applied *)
(* to every side, every u64 price and every u64 sequence number.           *)
(***************************************************************************)
InitOrderId ==
    /\ bids = <<>>
    /\ asks = <<>>
    /\ prev = 0
    /\ lot_params = <<1, 1, 1>>
    /\ \E side \in Sides, price \in LotBalance, sequence_number \in LotBalance :
            call = [op |-> "new_order_id", side |-> side, price |-> price,
                    sequence_number |-> sequence_number]
    /\ before = EmptyBook
    /\ ret = None
    /\ error = None
    /\ walk = NoWalk

NewOrderId ==
    /\ call.op = "new_order_id"
    /\ ~ret.some
    /\ ret' = Some(new_order_id(call.side, call.price, call.sequence_number))
    /\ UNCHANGED <<bids, asks, prev, lot_params, call, before, error, walk>>

\* before keeps the call that made the id
GetOrderIdParts ==
    /\ call.op = "new_order_id"
    /\ ret.some
    /\ call' = [op |-> "get_order_id_parts", oid |-> ret.v]
    /\ before' = call
    /\ ret' = Some(get_order_id_parts(ret.v))
    /\ UNCHANGED <<bids, asks, prev, lot_params, error, walk>>

NextOrderId == NewOrderId \/ GetOrderIdParts

SpecOrderId == InitOrderId /\ [][NextOrderId]_vars

\* the sequence numbers of the claim: [1, 2^63)
SequenceNumbers == 1..(Pow2(LotBalanceBits - 1) - 1)

\* the id under test was made from a triple of the claimed range and decoded
Decoded ==
    /\ call.op = "get_order_id_parts"
    /\ before.sequence_number \in SequenceNumbers

\* C31: for every side, every price in [0, 2^64) and every sequence number
\* in [1, 2^63), get_order_id_parts(new_order_id(side, price, sequence)) is
\* (side, price, sequence), and no other triple of that range has the same
\* id.
C31_OrderIdRoundTrip ==
    Decoded =>
        /\ ret.v = [side |-> before.side, price |-> before.price,
                    seq |-> before.sequence_number]
        /\ \A side \in Sides, price \in LotBalance, seq \in SequenceNumbers :
                new_order_id(side, price, seq) = call.oid
                    => <<side, price, seq>>
                        = <<before.side, before.price, before.sequence_number>>

\* a Buy id with the largest price and the largest sequence number: every
\* bit of the word is set
C31_Witness ==
    /\ Decoded
    /\ before.side = "Buy"
    /\ before.price = Pow2(LotBalanceBits) - 1
    /\ before.sequence_number = Pow2(LotBalanceBits - 1) - 1
    /\ call.oid = Pow2(2 * LotBalanceBits) - 1
    /\ ret.v.seq = before.sequence_number

\* outside the range the top bit of the sequence number is lost
C31_WitnessOutOfRange ==
    /\ call.op = "get_order_id_parts"
    /\ before.sequence_number = Pow2(LotBalanceBits - 1)
    /\ ret.v.seq = 0

\* C32: every place_order call whose order_type is Limit, PostOnly,
\* ImmediateOrCancel or FillOrKill and whose limit_price_lots is absent
\* aborts with the missing-limit-price error instead of returning a result.
C32_MissingLimitPriceAborts ==
    (/\ Placed
     /\ call.order.order_type # "Market"
     /\ ~call.order.limit_price_lots.some)
        => (~ret.some /\ error = Some(MISSING_LIMIT_PRICE))

\* C33: whenever place_order returns PartialFill (here: for a valid order),
\* part of the order was filled (fill_qty_lots > 0) and the remainder was
\* placed on the book: open_qty_lots = max_qty_lots - fill_qty_lots > 0 and
\* get_order(result.id) returns an order with that open quantity.
C33_PartialFillMeansPartialFill ==
    (Returned /\ ValidOrder(call.order) /\ ret.v.outcome = "PartialFill") =>
        /\ ret.v.fill_qty_lots > 0
        /\ ret.v.open_qty_lots = call.order.max_qty_lots - ret.v.fill_qty_lots
        /\ ret.v.open_qty_lots > 0
        /\ ob_get_order(book_now, ret.v.id).some
        /\ ob_get_order(book_now, ret.v.id).v.open_qty_lots = ret.v.open_qty_lots

(***************************************************************************)
(* The calculator specification: get_base_purchasable applied to bounded   *)
(* native amounts, prices and lot parameters.                              *)
(***************************************************************************)
MaxNative == 40      \* quote_amount is drawn from 0..MaxNative
MaxCalcPrice == 4    \* price is drawn from 1..MaxCalcPrice
MaxLotSize == 3      \* the lot sizes are drawn from 1..MaxLotSize
MaxDenom == 4        \* base_denomination is drawn from 1..MaxDenom

InitCalc ==
    /\ bids = <<>>
    /\ asks = <<>>
    /\ prev = 0
    /\ \E base_lot_size \in 1..MaxLotSize, quote_lot_size \in 1..MaxLotSize,
          base_denomination \in 1..MaxDenom :
            lot_params = <<base_lot_size, quote_lot_size, base_denomination>>
    /\ \E quote_amount \in 0..MaxNative, price \in 1..MaxCalcPrice :
            call = [op |-> "new", quote_amount |-> quote_amount, price |-> price]
    /\ before = EmptyBook
    /\ ret = None
    /\ error = None
    /\ walk = NoWalk

\* OrderbookCalculator::get_base_purchasable on the calculator lot_params
GetBasePurchasable ==
    /\ call.op = "new"
    /\ \E r \in {get_base_purchasable(call.quote_amount, call.price, lot_params[2],
                                       lot_params[1], lot_params[3])} :
        /\ call' = [call EXCEPT !.op = "get_base_purchasable"]
        /\ ret' = r
        /\ error' = IF r.some THEN None ELSE Some(U64_OVERFLOW)
    /\ UNCHANGED <<bids, asks, prev, lot_params, before, walk>>

NextCalc == GetBasePurchasable

SpecCalc == InitCalc /\ [][NextCalc]_vars

\* get_base_purchasable returned
Purchased == call.op = "get_base_purchasable" /\ ret.some

\* r = floor(numerator / denominator)
IsFloor(r, numerator, denominator) ==
    r * denominator <= numerator /\ numerator < (r + 1) * denominator

\* C34 (as claimed): base_purchasable(quote_native, price_lots) is
\* floor(quote_native * base_denomination / price_lots / base_lot_size), for
\* all lot parameters including quote_lot_size > 1.
C34_BasePurchasableAsClaimed ==
    Purchased =>
        IsFloor(ret.v, call.quote_amount * lot_params[3], call.price * lot_params[1])

\* C34 (amended): base_purchasable(quote_native, price_lots) is the floor of
\* the exact quotient quote_native * base_denomination /
\* (quote_lot_size * price_lots * base_lot_size): the multiplication comes
\* before every division, the quote lot size divides too, and the claimed
\* value is returned when quote_lot_size = 1.
C34_BasePurchasable ==
    Purchased =>
        /\ IsFloor(ret.v, call.quote_amount * lot_params[3],
                   lot_params[2] * call.price * lot_params[1])
        /\ lot_params[2] = 1 =>
                ret.v = ((call.quote_amount * lot_params[3]) \div call.price)
                            \div lot_params[1]

\* a quote lot size > 1 that does not divide the amount, a denomination > 1:
\* dividing first would lose a base lot
C34_Witness ==
    /\ Purchased
    /\ lot_params[2] > 1
    /\ lot_params[3] > 1
    /\ call.quote_amount % lot_params[2] # 0
    /\ ret.v > 0
    /\ ret.v # (((call.quote_amount \div lot_params[2]) * lot_params[3])
                    \div call.price) \div lot_params[1]

\* the result does not fit a u64: the call panics
C34_WitnessOverflow ==
    /\ call.op = "get_base_purchasable"
    /\ error = Some(U64_OVERFLOW)

\* o is the order stored at orders[i] with its derived fields taken from the
\* position: the price of the entry, the side of the container and the
\* number of better price levels
HandedOut(o, orders, reverse_prices, i) ==
    /\ o.sequence_number = orders[i].order.sequence_number
    /\ o.owner_id = orders[i].order.owner_id
    /\ o.open_qty_lots = orders[i].order.open_qty_lots
    /\ o.client_id = orders[i].order.client_id
    /\ o.limit_price_lots = Some(orders[i].price)
    /\ o.side = Some(L2Side(reverse_prices))
    /\ o.price_rank = Some(Cardinality(BetterLevels(orders, reverse_prices,
                                                    orders[i].price)))

\* the derived price rank stored with entry i is not its current rank
StaleRank(orders, reverse_prices, i) ==
    /\ orders[i].order.price_rank.some
    /\ orders[i].order.price_rank.v
            # get_price_rank(orders, reverse_prices, orders[i].price)

\* C35: iter() on a side yields every resting order exactly once in
\* container order (best price first, oldest first within a price), and
\* every order handed out by iter, get_order, min_order and max_order
\* carries the price and side of its container position and the current
\* get_price_rank of its price, whatever derived values are stored with it.
C35_ReadsProjectPosition ==
    \A reverse_prices \in BOOLEAN :
        /\ Len(l2_iter(SideOf(book_now, reverse_prices), reverse_prices))
                = Len(SideOf(book_now, reverse_prices))
        /\ StrictlyOrdered(SideOf(book_now, reverse_prices), reverse_prices)
        /\ \A i \in 1..Len(SideOf(book_now, reverse_prices)) :
            /\ HandedOut(l2_iter(SideOf(book_now, reverse_prices), reverse_prices)[i],
                         SideOf(book_now, reverse_prices), reverse_prices, i)
            /\ \E got \in {l2_get_order(SideOf(book_now, reverse_prices), reverse_prices,
                                SideOf(book_now, reverse_prices)[i].price,
                                SideOf(book_now, reverse_prices)[i].order.sequence_number)} :
                    /\ got.some
                    /\ HandedOut(got.v, SideOf(book_now, reverse_prices), reverse_prices, i)
        /\ SideOf(book_now, reverse_prices) # <<>> =>
            /\ \E i \in 1..Len(SideOf(book_now, reverse_prices)) :
                    HandedOut(min_order(SideOf(book_now, reverse_prices), reverse_prices).v,
                              SideOf(book_now, reverse_prices), reverse_prices, i)
            /\ \E i \in 1..Len(SideOf(book_now, reverse_prices)) :
                    HandedOut(max_order(SideOf(book_now, reverse_prices), reverse_prices).v,
                              SideOf(book_now, reverse_prices), reverse_prices, i)

\* an ask that was saved back after a partial fill with the rank it had
\* then, and a better ask posted since: the stored rank is stale
C35_Witness ==
    /\ Len(asks) = 2
    /\ StaleRank(asks, FALSE, 2)
    /\ l2_iter(asks, FALSE)[2].price_rank = Some(1)

\* the same on the bid side
C35_WitnessBids ==
    /\ Len(bids) = 2
    /\ StaleRank(bids, TRUE, 2)
    /\ l2_iter(bids, TRUE)[2].price_rank = Some(1)

\* the orders a side's iter() yields, for the side given as a Side
IterOf(side) == IF side = "Buy" THEN l2_iter(bids, TRUE) ELSE l2_iter(asks, FALSE)

\* the number of bids at the best bid price; they are the first of bids
BestBids == Cardinality({i \in 1..Len(bids) : bids[i].price = bids[1].price})

\* C36 (as claimed): on both sides find_bbo(side) is the first order
\* yielded by that side's iter(), the order the matching walk visits first:
\* the best price and, at that price, the lowest sequence number.
C36_FindBboIsFirstOfIter ==
    \A side \in Sides :
        IF IterOf(side) = <<>>
        THEN find_bbo(book_now, side) = None
        ELSE find_bbo(book_now, side) = Some(IterOf(side)[1])

\* C36 (amended): find_bbo(Sell) is the first order yielded by
\* asks.iter().  find_bbo(Buy) has the price of the first order yielded by
\* bids.iter() but is the last order of that price level, the one with the
\* highest sequence number; it is the first order of bids.iter() exactly
\* when the best bid level holds one order.
C36_FindBboVsIter ==
    /\ IF asks = <<>>
       THEN find_bbo(book_now, "Sell") = None
       ELSE find_bbo(book_now, "Sell") = Some(IterOf("Sell")[1])
    /\ IF bids = <<>>
       THEN find_bbo(book_now, "Buy") = None
       ELSE /\ find_bbo(book_now, "Buy") = Some(IterOf("Buy")[BestBids])
            /\ find_bbo(book_now, "Buy").v.limit_price_lots
                    = IterOf("Buy")[1].limit_price_lots
            /\ (find_bbo(book_now, "Buy") = Some(IterOf("Buy")[1])) <=> (BestBids = 1)

\* two bids at one price and an ask: the best bid is the younger bid
C36_Witness ==
    /\ Len(bids) = 2
    /\ bids[1].price = bids[2].price
    /\ find_bbo(book_now, "Buy").v.sequence_number = bids[2].order.sequence_number
    /\ Len(asks) = 1
    /\ find_bbo(book_now, "Sell").v.sequence_number = asks[1].order.sequence_number

\* two asks at one price: the best ask is the older
C36_WitnessAsks ==
    /\ Len(asks) = 2
    /\ asks[1].price = asks[2].price
    /\ find_bbo(book_now, "Sell").v.sequence_number = asks[1].order.sequence_number

(***************************************************************************)
(* The wide-denomination specification: the same book and the same calls   *)
(* on a market whose base denomination is half the range of a u64 (a token *)
(* of 19 decimals at the width of the source), quoted in lots that cover   *)
(* it.                                                                     *)
(***************************************************************************)
WideLotParams == {<<1, Pow2(LotBalanceBits - 1), Pow2(LotBalanceBits - 1)>>}

InitWide ==
    /\ bids = <<>>
    /\ asks = <<>>
    /\ prev = 0
    /\ lot_params \in WideLotParams
    /\ call = [op |-> "new"]
    /\ before = EmptyBook
    /\ ret = None
    /\ error = None
    /\ walk = NoWalk

SpecWide == InitWide /\ [][Next]_vars

\* C37: every NewOrder that satisfies the validity rules and meets no
\* resting order of the same user makes place_order return a
\* PlaceOrderResult; the 64-bit narrowing of the buy clamp
\* remaining_quote_lots * base_denomination / price / base_lot_size never
\* overflows.
C37_ValidOrderReturns ==
    (/\ Placed
     /\ ValidOrder(call.order)
     /\ ~\E k \in 1..Len(OppositeBefore) : ReachesOwnOrder(k))
        => (ret.some /\ error = None)

\* quote lots deducted from the budget for match m
LotsPaid(m, order) == m.native_quote_paid \div order.quote_lot_size

\* quote lots deducted by the first n matches
RECURSIVE SumLotsPaid(_, _, _)
SumLotsPaid(matches, order, n) ==
    IF n = 0 THEN 0
    ELSE SumLotsPaid(matches, order, n - 1) + LotsPaid(matches[n], order)

\* C38: no subtraction in place_order underflows: in every match step of a
\* Buy the quote lots deducted, floor(native_quote_paid / quote_lot_size),
\* are <= the remaining unused quote lots; every fill is <= the remaining
\* unfilled quantity; every fill applied to a maker is <= that maker's
\* open_qty_lots.
C38_NoUnderflow ==
    Placed =>
        \A k \in 1..Len(walk.matches) :
            /\ call.order.available_quote_lots.some =>
                    LotsPaid(walk.matches[k], call.order)
                        <= call.order.available_quote_lots.v
                            - SumLotsPaid(walk.matches, call.order, k - 1)
            /\ walk.matches[k].fill_qty_lots
                    <= call.order.max_qty_lots - SumFill(walk.matches, k - 1)
            /\ walk.matches[k].fill_qty_lots
                    <= OppositeBefore[MakerLoc(walk.matches[k])].order.open_qty_lots
            /\ \A l \in 1..Len(walk.matches) :
                    MakerLoc(walk.matches[l]) = MakerLoc(walk.matches[k]) => l = k

\* a Buy whose second match spends the last quote lot of the budget and
\* fills the last lot of the order and of its maker
C38_Witness ==
    /\ Returned
    /\ Len(walk.matches) = 2
    /\ call.order.available_quote_lots.some
    /\ LotsPaid(walk.matches[1], call.order) > 0
    /\ LotsPaid(walk.matches[2], call.order)
            = call.order.available_quote_lots.v - LotsPaid(walk.matches[1], call.order)
    /\ walk.matches[2].fill_qty_lots
            = call.order.max_qty_lots - walk.matches[1].fill_qty_lots
    /\ walk.matches[2].fill_qty_lots
            = OppositeBefore[MakerLoc(walk.matches[2])].order.open_qty_lots

(***************************************************************************)
(* TakeL2Depth::take_depth (l2/traits.rs): the side as a list of           *)
(* <<price, orders at that price>>, cut at depth levels.                   *)
(***************************************************************************)
\* the loop of take_depth over orders_iter[i..]; st is [ret, curr_acc,
\* curr_price]
RECURSIVE take_depth_loop(_, _, _, _)
take_depth_loop(orders_iter, i, depth, st) ==
    IF i > Len(orders_iter) THEN st
    ELSE IF Len(st.ret) >= depth THEN st
    ELSE IF st.curr_price.some /\ st.curr_price.v # orders_iter[i].limit_price_lots.v
    THEN take_depth_loop(orders_iter, i + 1, depth,
            [ret |-> Append(st.ret, <<st.curr_price.v, st.curr_acc>>),
             curr_acc |-> <<orders_iter[i]>>,
             curr_price |-> Some(orders_iter[i].limit_price_lots.v)])
    ELSE take_depth_loop(orders_iter, i + 1, depth,
            [ret |-> st.ret,
             curr_acc |-> Append(st.curr_acc, orders_iter[i]),
             curr_price |-> Some(orders_iter[i].limit_price_lots.v)])

\* the levels pushed by the loop, then the accumulator if it holds orders
take_depth_result(st) ==
    IF st.curr_acc # <<>>
    THEN Append(st.ret, <<st.curr_price.v, st.curr_acc>>)
    ELSE st.ret

take_depth(orders, reverse_prices, depth) ==
    take_depth_result(
        take_depth_loop(l2_iter(orders, reverse_prices), 1, depth,
                        [ret |-> <<>>, curr_acc |-> <<>>, curr_price |-> None]))

\* the depths asked for: none, some, all and more than all levels
Depths == 0..(MaxPrice + 1)

\* the orders iter() yields at price, in iteration order
OrdersAt(orders, reverse_prices, price) ==
    SelectSeq(l2_iter(orders, reverse_prices), LAMBDA o : o.limit_price_lots.v = price)

\* level is the n-th best price level of the side with all its orders
IsLevel(level, orders, reverse_prices, n) ==
    /\ level[1] \in Levels(orders)
    /\ Cardinality(BetterLevels(orders, reverse_prices, level[1])) = n - 1
    /\ level[2] = OrdersAt(orders, reverse_prices, level[1])

\* C39: take_depth(depth) returns at most depth price levels, in best-first
\* order, each as (price, all resting orders at that price in time order);
\* take_depth(0) returns an empty list and a depth at least the number of
\* levels returns the whole side grouped by price.
C39_TakeDepth ==
    \A reverse_prices \in BOOLEAN, depth \in Depths :
        \E r \in {take_depth(SideOf(book_now, reverse_prices), reverse_prices, depth)} :
            /\ Len(r) <= depth
            /\ Len(r) = Min(depth, Cardinality(Levels(SideOf(book_now, reverse_prices))))
            /\ \A n \in 1..Len(r) :
                    IsLevel(r[n], SideOf(book_now, reverse_prices), reverse_prices, n)
====
